---- MODULE Spec2Model ----
(***************************************************************************)
(* A model of data_stream_processor.js: the stream processors (filter,     *)
(* transform, aggregation, anomaly detection, trend analysis), the event   *)
(* emitter they inherit from, and the DataStreamPipeline that chains them. *)
(*                                                                         *)
(* Numbers are exact: a JavaScript number is a record [k, n, d] that is    *)
(* either the rational n/d in lowest terms (k = "fin"), NaN, +/-Infinity,  *)
(* the square root of the rational n/d (k = "sqrt", used for a standard    *)
(* deviation that is not rational), or the value undefined.  Floating      *)
(* point rounding of the arithmetic is not modelled; quotients, sums and   *)
(* differences cancel common factors before they multiply, which keeps the *)
(* intermediate integers small.                                            *)
(***************************************************************************)
EXTENDS Integers, Sequences, FiniteSets, TLC

\* ------------------------------------------------------------------ bounds
MaxStages == 2
MaxPushes == 2
MaxMainPushes == 10
MaxCalls == 5
MaxSeries == 51
MaxTrendCalls == 6

\* ------------------------------------------------------ program constants
DefaultThreshold == 3
DefaultHistorySize == 50
MinHistory == 10
MinTrendValues == 5
TrendLimitPercent == 5
NormalizeDivisor == 200

\* ----------------------------------------------------------------- numbers
Abs(i) == IF i < 0 THEN -i ELSE i

RECURSIVE GCD(_, _)
GCD(a, b) == IF b = 0 THEN a ELSE GCD(b, a % b)

NaN == [k |-> "nan", n |-> 0, d |-> 1]
Undefined == [k |-> "undef", n |-> 0, d |-> 1]
PosInf == [k |-> "inf", n |-> 1, d |-> 1]
NegInf == [k |-> "inf", n |-> -1, d |-> 1]

\* the rational a/b (b # 0) in lowest terms with a positive denominator
Frac(a, b) ==
    LET s == IF b < 0 THEN -1 ELSE 1
        g == GCD(Abs(a), Abs(b))
    IN  [k |-> "fin", n |-> (s * a) \div g, d |-> (s * b) \div g]

Num(i) == [k |-> "fin", n |-> i, d |-> 1]

IsFin(x) == x.k = "fin"

\* typeof x === 'number' (undefined is the only non-number the model carries)
IsNumber(x) == x.k # "undef"

IsNaN(x) == x.k = "nan"

\* a / b for JavaScript numbers with a finite or missing operand
Div(a, b) ==
    IF ~IsFin(a) \/ ~IsFin(b)
    THEN IF a.k = "inf" /\ IsFin(b)
         THEN (IF (a.n > 0) = (b.n >= 0) THEN PosInf ELSE NegInf)
         ELSE IF IsFin(a) /\ b.k = "inf" THEN Num(0) ELSE NaN
    ELSE IF b.n = 0
         THEN (IF a.n = 0 THEN NaN ELSE IF a.n > 0 THEN PosInf ELSE NegInf)
         ELSE LET gn == GCD(Abs(a.n), Abs(b.n))
                  gd == GCD(a.d, b.d)
              IN  Frac((a.n \div gn) * (b.d \div gd), (a.d \div gd) * (b.n \div gn))

\* a - b
Sub(a, b) ==
    IF IsFin(a) /\ IsFin(b)
    THEN LET g == GCD(a.d, b.d)
         IN  Frac(a.n * (b.d \div g) - b.n * (a.d \div g), (a.d \div g) * b.d)
    ELSE IF a.k \in {"nan", "undef", "sqrt"} \/ b.k \in {"nan", "undef", "sqrt"} THEN NaN
    ELSE IF a.k = "inf" /\ b.k = "inf"
         THEN (IF a.n = b.n THEN NaN ELSE a)
    ELSE IF a.k = "inf" THEN a
    ELSE (IF b.n > 0 THEN NegInf ELSE PosInf)

\* a + b
Add(a, b) ==
    IF IsFin(a) /\ IsFin(b)
    THEN LET g == GCD(a.d, b.d)
         IN  Frac(a.n * (b.d \div g) + b.n * (a.d \div g), (a.d \div g) * b.d)
    ELSE IF a.k \in {"nan", "undef", "sqrt"} \/ b.k \in {"nan", "undef", "sqrt"} THEN NaN
    ELSE IF a.k = "inf" /\ b.k = "inf"
         THEN (IF a.n = b.n THEN a ELSE NaN)
    ELSE IF a.k = "inf" THEN a ELSE b

\* Math.pow(a, 2)
Square(a) ==
    IF IsFin(a) THEN Frac(a.n * a.n, a.d * a.d)
    ELSE IF a.k = "inf" THEN PosInf ELSE NaN

\* a < b as JavaScript compares numbers: false as soon as one side is NaN
Less(a, b) ==
    IF a.k \in {"nan", "undef", "sqrt"} \/ b.k \in {"nan", "undef", "sqrt"} THEN FALSE
    ELSE IF a.k = "inf" THEN a.n < 0 /\ ~(b.k = "inf" /\ b.n < 0)
    ELSE IF b.k = "inf" THEN b.n > 0
    ELSE Sub(a, b).n < 0

RECURSIVE ISqrt(_, _, _)
\* the largest r in lo..hi with r * r <= i, by bisection (lo * lo <= i)
ISqrt(i, lo, hi) ==
    IF lo >= hi THEN lo
    ELSE LET mid == (lo + hi + 1) \div 2
         IN  IF mid * mid <= i THEN ISqrt(i, mid, hi) ELSE ISqrt(i, lo, mid - 1)

\* Math.sqrt of a variance (never negative): exact when rational; 46340 is the
\* largest root of a 32-bit integer
Sqrt(a) ==
    IF a.k = "inf" THEN PosInf
    ELSE IF ~IsFin(a) THEN NaN
    ELSE LET rn == ISqrt(a.n, 0, 46340)
             rd == ISqrt(a.d, 0, 46340)
         IN  IF rn * rn = a.n /\ rd * rd = a.d
             THEN Frac(rn, rd)
             ELSE [k |-> "sqrt", n |-> a.n, d |-> a.d]

\* the sum of vs[lo..hi]; the arithmetic is exact, so the order in which the
\* terms are added does not show, and the sum is taken by halves
RECURSIVE SumRange(_, _, _)
SumRange(vs, lo, hi) ==
    IF lo > hi THEN Num(0)
    ELSE IF lo = hi THEN vs[lo]
    ELSE LET mid == (lo + hi) \div 2
         IN  Add(SumRange(vs, lo, mid), SumRange(vs, mid + 1, hi))

\* values.reduce((a, b) => a + b, 0)
SumOf(vs) == Add(Num(0), SumRange(vs, 1, Len(vs)))

\* the sum of Math.pow(vs[i] - mean, 2) for i in lo..hi
RECURSIVE SumSqDevRange(_, _, _, _)
SumSqDevRange(vs, mean, lo, hi) ==
    IF lo > hi THEN Num(0)
    ELSE IF lo = hi THEN Square(Sub(vs[lo], mean))
    ELSE LET mid == (lo + hi) \div 2
         IN  Add(SumSqDevRange(vs, mean, lo, mid), SumSqDevRange(vs, mean, mid + 1, hi))

\* values.reduce((acc, val) => acc + Math.pow(val - mean, 2), 0)
SumSqDev(vs, mean) == Add(Num(0), SumSqDevRange(vs, mean, 1, Len(vs)))

\* Math.min(...values): NaN when one argument is not a number
RECURSIVE MinOf(_)
MinOf(vs) ==
    IF vs = <<>> THEN PosInf
    ELSE LET m == MinOf(Tail(vs))
             h == Head(vs)
         IN  IF h.k \in {"nan", "undef"} \/ m.k = "nan" THEN NaN
             ELSE IF Less(h, m) THEN h ELSE m

\* Math.max(...values)
RECURSIVE MaxOf(_)
MaxOf(vs) ==
    IF vs = <<>> THEN NegInf
    ELSE LET m == MaxOf(Tail(vs))
             h == Head(vs)
         IN  IF h.k \in {"nan", "undef"} \/ m.k = "nan" THEN NaN
             ELSE IF Less(m, h) THEN h ELSE m

\* a * b for a finite b
Mul(a, b) ==
    IF IsFin(a) /\ IsFin(b)
    THEN LET g == GCD(Abs(a.n), b.d)
             h == GCD(Abs(b.n), a.d)
         IN  Frac((a.n \div g) * (b.n \div h), (a.d \div h) * (b.d \div g))
    ELSE IF a.k = "inf" /\ IsFin(b) /\ b.n # 0
         THEN (IF (a.n > 0) = (b.n > 0) THEN PosInf ELSE NegInf)
    ELSE NaN

\* Math.abs(a)
AbsNum(a) ==
    IF IsFin(a) THEN Frac(Abs(a.n), a.d)
    ELSE IF a.k = "inf" THEN PosInf ELSE NaN

\* parseFloat(x.toFixed(2)): x rounded to two decimals, a tie away from zero;
\* NaN and the infinities print and parse back as themselves
ToFixed2(x) ==
    IF IsFin(x)
    THEN LET h == (200 * Abs(x.n) + x.d) \div (2 * x.d)
         IN  Frac((IF x.n < 0 THEN -h ELSE h), 100)
    ELSE IF x.k = "inf" THEN x ELSE NaN

\* ------------------------------------------------------------------- items
\* What flows through a pipeline: null, a DataPoint, or the statistics record
\* an AggregationProcessor returns.  `timestamp` is the logical time of
\* creation; `id` is unique per DataPoint.
NULL == [type |-> "null"]

DataPoint(value, timestamp) ==
    [type |-> "DataPoint", id |-> timestamp, timestamp |-> timestamp,
     value |-> value, normalizedValue |-> Undefined]

\* dp.value (undefined on a statistics record, which has no such property)
ValueOf(dp) == IF dp.type = "DataPoint" THEN dp.value ELSE Undefined

\* DataPoint.isValid
isValid(dp) == IsNumber(dp.value) /\ ~IsNaN(dp.value)

\* ----------------------------------------------------------------- emitter
\* A listener is [kind, owner]: the pipeline's bubbling listeners have owner
\* "pipeline", an outside subscriber has owner "observer".  The log holds
\* every published event but the pipeline's `start` and `stop`, as
\* [src, kind, data], src = 0 for the pipeline and the stage's index otherwise.
Pipeline == 0

HasListener(st, kind) == \E i \in 1..Len(st.listeners) : st.listeners[i].kind = kind

\* re-publication under the stage's own kind, `error` included
BubbleKindSame(kind) == kind

\* the kind under which the pipeline re-publishes a stage's event
BubbleKind(kind) == IF kind = "error" THEN "processorError" ELSE kind

RECURSIVE Bubbles(_, _, _)
\* the pipeline's re-publications, one per bubbling listener, in registration order
Bubbles(ls, kind, data) ==
    IF ls = <<>> THEN <<>>
    ELSE (IF Head(ls).kind = kind /\ Head(ls).owner = "pipeline"
          THEN <<[src |-> Pipeline, kind |-> BubbleKind(kind), data |-> data]>>
          ELSE <<>>) \o Bubbles(Tail(ls), kind, data)

\* EventEmitter.emit on stage s: the event, then what its listeners publish
emit(s, st, kind, data) ==
    <<[src |-> s, kind |-> kind, data |-> data]>> \o Bubbles(st.listeners, kind, data)

\* EventEmitter.emit throws when an 'error' event has no listener
emitThrows(st, kind) == kind = "error" /\ ~HasListener(st, kind)

\* ------------------------------------------------------------------ stages
\* StreamProcessor's constructor and those of its subclasses
NewStage(kind, name) ==
    [kind |-> kind, name |-> name, processedCount |-> 0, errorCount |-> 0,
     filteredCount |-> 0, predicate |-> "none", transformer |-> "none",
     windowSize |-> 0, window |-> <<>>,
     threshold |-> Num(0), history |-> <<>>, historySize |-> 0, anomalyCount |-> 0,
     values |-> <<>>, listeners |-> <<>>]

FilterProcessor(predicate) ==
    [NewStage("Filter", predicate) EXCEPT !.predicate = predicate]

TransformProcessor(transformer) ==
    [NewStage("Transform", transformer) EXCEPT !.transformer = transformer]

AggregationProcessor(windowSize) ==
    [NewStage("Aggregation", "aggregation") EXCEPT !.windowSize = windowSize]

AnomalyDetector(threshold) ==
    [NewStage("Anomaly", "anomaly") EXCEPT !.threshold = threshold,
                                           !.historySize = DefaultHistorySize]

TrendAnalyzer(windowSize) ==
    [NewStage("Trend", "trend") EXCEPT !.windowSize = windowSize]

\* The outcome of a (part of a) process call: the stage afterwards, the events
\* published, and either the returned item or threw = TRUE (the promise rejects).
Outcome(st, log, ret, threw) == [st |-> st, log |-> log, ret |-> ret, threw |-> threw]

\* a handler that publishes the fault without counting it
handleErrorUncounted(s, st, error, dp) ==
    Outcome(st,
            emit(s, st, "error", [error |-> error, dataPoint |-> dp, processor |-> st.name]),
            NULL,
            emitThrows(st, "error"))

\* StreamProcessor.handleError, as the last statement before `return null`
handleError(s, st, error, dp) ==
    LET st1 == [st EXCEPT !.errorCount = @ + 1]
    IN  Outcome(st1,
                emit(s, st1, "error", [error |-> error, dataPoint |-> dp, processor |-> st.name]),
                NULL,
                emitThrows(st1, "error"))

\* this.predicate(dataPoint): "true", "false" or "throw"
Predicate(predicate, dp) ==
    IF predicate = "isValid"
    THEN (IF dp.type # "DataPoint" THEN "throw"
          ELSE IF isValid(dp) THEN "true" ELSE "false")
    ELSE "throw"

\* FilterProcessor.process
FilterProcess(s, st, dp) ==
    LET st1 == [st EXCEPT !.processedCount = @ + 1]
        p == Predicate(st.predicate, dp)
    IN  IF p = "true" THEN Outcome(st1, emit(s, st1, "data", dp), dp, FALSE)
        ELSE IF p = "false"
        THEN LET st2 == [st1 EXCEPT !.filteredCount = @ + 1]
             IN  Outcome(st2, emit(s, st2, "filtered", dp), NULL, FALSE)
        ELSE handleError(s, st1, (IF st.predicate = "isValid" THEN "TypeError" ELSE "Error"), dp)

\* this.transformer(dataPoint): the value it returns or resolves to (ok), or
\* its fault, thrown in the call (thrown) or delivered as a rejected promise.
\* "normalize" is main's transformer; "throwing" and "rejecting" always fault.
Transformer(transformer, dp) ==
    IF transformer = "normalize"
    THEN (IF dp.type = "null"
          THEN [ok |-> FALSE, value |-> NULL, thrown |-> TRUE]
          ELSE [ok |-> TRUE, thrown |-> FALSE,
                value |-> [dp EXCEPT !.normalizedValue = Div(ValueOf(dp), Num(NormalizeDivisor))]])
    ELSE [ok |-> FALSE, value |-> NULL, thrown |-> transformer = "throwing"]

\* TransformProcessor.process up to `await this.transformer(dataPoint)`
TransformCall(st) == [st EXCEPT !.processedCount = @ + 1]

\* TransformProcessor.process from the await on, the awaited promise settled
\* as ok/value; a fault thrown in the call reaches the catch the same way
TransformResume(s, st, dp, ok, value) ==
    IF ok THEN Outcome(st, emit(s, st, "data", value), value, FALSE)
    ELSE handleError(s, st, (IF st.transformer = "normalize" THEN "TypeError" ELSE "Error"), dp)

\* TransformProcessor.process from call to return
TransformProcess(s, st, dp) ==
    LET t == Transformer(st.transformer, dp)
    IN  TransformResume(s, TransformCall(st), dp, t.ok, t.value)

RECURSIVE ValuesOf(_)
\* this.window.map(dp => dp.value)
ValuesOf(window) ==
    IF window = <<>> THEN <<>> ELSE <<ValueOf(Head(window))>> \o ValuesOf(Tail(window))

RECURSIVE HasNull(_)
\* dp.value throws a TypeError for a null element of the window
HasNull(window) ==
    IF window = <<>> THEN FALSE ELSE Head(window).type = "null" \/ HasNull(Tail(window))

\* population mean, variance and standard deviation of a non-empty buffer
Mean(vs) == Div(SumOf(vs), Num(Len(vs)))

\* the variance of a sample: the squared deviations divided by count - 1
VarianceSample(vs) == Div(SumSqDev(vs, Div(SumOf(vs), Num(Len(vs)))), Num(Len(vs) - 1))

\* the population variance: the squared deviations divided by the count
Variance(vs) == Div(SumSqDev(vs, Mean(vs)), Num(Len(vs)))
StdDev(vs) == Sqrt(Variance(vs))

\* AggregationProcessor._calculateStats for a window without null
calculateStats(window, now) ==
    LET vs == ValuesOf(window)
    IN  [type |-> "stats", count |-> Len(vs), sum |-> SumOf(vs), mean |-> Mean(vs),
         min |-> MinOf(vs), max |-> MaxOf(vs), stdDev |-> StdDev(vs),
         timestamp |-> now, normalizedValue |-> Undefined]

\* push onto a buffer that is never shifted
PushShiftUnbounded(buffer, x, capacity) == Append(buffer, x)

\* push onto a buffer, then shift when it is longer than its capacity
PushShift(buffer, x, capacity) ==
    LET b == Append(buffer, x)
    IN  IF Len(b) > capacity THEN Tail(b) ELSE b

\* AggregationProcessor.process
AggregationProcess(s, st, dp, now) ==
    LET st1 == [st EXCEPT !.processedCount = @ + 1,
                          !.window = PushShift(@, dp, st.windowSize)]
        stats == calculateStats(st1.window, now)
    IN  IF HasNull(st1.window) THEN handleError(s, st1, "TypeError", dp)
        ELSE Outcome(st1, emit(s, st1, "aggregation", stats), stats, FALSE)

\* AnomalyDetector._getHistoryStats
getHistoryStats(history) ==
    [mean |-> Mean(history), stdDev |-> StdDev(history), count |-> Len(history)]

\* a detector that also flags a z-score equal to the threshold
detectAnomalyInclusive(history, value, threshold) ==
    LET mean == Mean(history)
        variance == Variance(history)
    IN  IF ~IsFin(variance) \/ variance.n = 0 \/ ~IsFin(threshold) THEN FALSE
        ELSE LET zSquare == Div(Square(Sub(value, mean)), variance)
             IN  IF threshold.n < 0 THEN ~IsNaN(zSquare)
                 ELSE ~Less(zSquare, Square(threshold))

\* AnomalyDetector._detectAnomaly: Math.abs((value - mean) / stdDev) > threshold
\* for a finite threshold, decided on the squares since stdDev is kept as the
\* root of the variance
detectAnomaly(history, value, threshold) ==
    LET mean == Mean(history)
        variance == Variance(history)
    IN  IF ~IsFin(variance) \/ variance.n = 0 \/ ~IsFin(threshold) THEN FALSE
        ELSE LET zSquare == Div(Square(Sub(value, mean)), variance)
             IN  IF threshold.n < 0 THEN ~IsNaN(zSquare)
                 ELSE Less(Square(threshold), zSquare)

\* a detector that starts to judge one observation late
AnomalyProcessLate(s, st, dp) ==
    LET st1 == [st EXCEPT !.processedCount = @ + 1]
        st2 == [st1 EXCEPT !.history = PushShift(@, ValueOf(dp), st.historySize)]
        isAnomaly == Len(st2.history) > MinHistory
                     /\ detectAnomaly(st2.history, ValueOf(dp), st.threshold)
        st3 == IF isAnomaly THEN [st2 EXCEPT !.anomalyCount = @ + 1] ELSE st2
        anomaly == IF isAnomaly
                   THEN emit(s, st3, "anomaly",
                             [dataPoint |-> dp, stats |-> getHistoryStats(st3.history)])
                   ELSE <<>>
    IN  IF dp.type = "null" THEN handleError(s, st1, "TypeError", dp)
        ELSE Outcome(st3, anomaly \o emit(s, st3, "data", dp), dp, FALSE)

\* a detector that drops the observations it flags
AnomalyProcessDropping(s, st, dp) ==
    LET st1 == [st EXCEPT !.processedCount = @ + 1]
        st2 == [st1 EXCEPT !.history = PushShift(@, ValueOf(dp), st.historySize)]
        isAnomaly == Len(st2.history) >= MinHistory
                     /\ detectAnomaly(st2.history, ValueOf(dp), st.threshold)
        st3 == IF isAnomaly THEN [st2 EXCEPT !.anomalyCount = @ + 1] ELSE st2
    IN  IF dp.type = "null" THEN handleError(s, st1, "TypeError", dp)
        ELSE IF isAnomaly
        THEN Outcome(st3, emit(s, st3, "anomaly",
                               [dataPoint |-> dp, stats |-> getHistoryStats(st3.history)]),
                     NULL, FALSE)
        ELSE Outcome(st3, emit(s, st3, "data", dp), dp, FALSE)

\* AnomalyDetector.process
AnomalyProcess(s, st, dp) ==
    LET st1 == [st EXCEPT !.processedCount = @ + 1]
        st2 == [st1 EXCEPT !.history = PushShift(@, ValueOf(dp), st.historySize)]
        isAnomaly == Len(st2.history) >= MinHistory
                     /\ detectAnomaly(st2.history, ValueOf(dp), st.threshold)
        st3 == IF isAnomaly THEN [st2 EXCEPT !.anomalyCount = @ + 1] ELSE st2
        anomaly == IF isAnomaly
                   THEN emit(s, st3, "anomaly",
                             [dataPoint |-> dp, stats |-> getHistoryStats(st3.history)])
                   ELSE <<>>
    IN  IF dp.type = "null" THEN handleError(s, st1, "TypeError", dp)
        ELSE Outcome(st3, anomaly \o emit(s, st3, "data", dp), dp, FALSE)

\* TrendAnalyzer._analyzeTrend; diffPercent is the number that the event's text,
\* toFixed(2) followed by a percent sign, spells
analyzeTrend(values, now) ==
    LET sma == Mean(values)
        latest == values[Len(values)]
        diff == Sub(latest, sma)
        diffPercent == ToFixed2(Mul(Div(diff, sma), Num(100)))
    IN  [sma |-> sma, latest |-> latest, diff |-> diff, diffPercent |-> diffPercent,
         direction |-> IF Less(Num(TrendLimitPercent), AbsNum(diffPercent))
                       THEN (IF Less(Num(0), diff) THEN "upward" ELSE "downward")
                       ELSE "stable",
         timestamp |-> now]

\* an analyzer content with fewer buffered values
TrendProcessEager(s, st, dp, now) ==
    LET st1 == [st EXCEPT !.processedCount = @ + 1]
        st2 == [st1 EXCEPT !.values = PushShift(@, ValueOf(dp), st.windowSize)]
        trend == IF Len(st2.values) >= MinTrendValues - 2
                 THEN emit(s, st2, "trend", analyzeTrend(st2.values, now))
                 ELSE <<>>
    IN  IF dp.type = "null" THEN handleError(s, st1, "TypeError", dp)
        ELSE Outcome(st2, trend \o emit(s, st2, "data", dp), dp, FALSE)

\* TrendAnalyzer.process
TrendProcess(s, st, dp, now) ==
    LET st1 == [st EXCEPT !.processedCount = @ + 1]
        st2 == [st1 EXCEPT !.values = PushShift(@, ValueOf(dp), st.windowSize)]
        trend == IF Len(st2.values) >= MinTrendValues
                 THEN emit(s, st2, "trend", analyzeTrend(st2.values, now))
                 ELSE <<>>
    IN  IF dp.type = "null" THEN handleError(s, st1, "TypeError", dp)
        ELSE Outcome(st2, trend \o emit(s, st2, "data", dp), dp, FALSE)

\* processor.process(dp) from call to return
Process(s, st, dp, now) ==
    IF st.kind = "Filter" THEN FilterProcess(s, st, dp)
    ELSE IF st.kind = "Transform" THEN TransformProcess(s, st, dp)
    ELSE IF st.kind = "Aggregation" THEN AggregationProcess(s, st, dp, now)
    ELSE IF st.kind = "Anomaly" THEN AnomalyProcess(s, st, dp)
    ELSE TrendProcess(s, st, dp, now)

\* ------------------------------------------------------------------- state
VARIABLES
    stages,      \* every constructed stage, by index
    processors,  \* DataStreamPipeline.processors: indices into stages
    isRunning,   \* DataStreamPipeline.isRunning
    pc,          \* where the push in flight is suspended, or "idle"
    current,     \* push's local `current`; the argument of a direct process call
    idx,         \* position of push's for-of loop in processors
    pending,     \* the settled outcome the suspended push will resume with
    log,         \* the events published since the last call began
    result,      \* how the last push or process call ended
    clock,       \* number of push or process calls so far (logical time)
    lifecycle    \* the last of `start` and `stop` the pipeline published

vars == <<stages, processors, isRunning, pc, current, idx, pending, log, result, clock, lifecycle>>

\* ------------------------------------------------------------------ inputs
AggWindow == 2
TrendWindow == 6

Values == {Num(10), Num(60), NaN}

\* the threshold main gives its AnomalyDetector
MainThreshold == Frac(5, 2)

\* the items a caller hands to push or process at logical time now
Inputs(now) == {NULL} \cup {DataPoint(v, now) : v \in Values}

\* the stages a pipeline is built from
PipelineConfigs ==
    {FilterProcessor("isValid"),
     TransformProcessor("normalize"), TransformProcessor("throwing"),
     TransformProcessor("rejecting"),
     AggregationProcessor(AggWindow), AnomalyDetector(Num(3)), TrendAnalyzer(TrendWindow)}

\* the stages used on their own
StageConfigs ==
    {FilterProcessor("isValid"), FilterProcessor("faulty"),
     TransformProcessor("normalize"), TransformProcessor("throwing"),
     TransformProcessor("rejecting"),
     AggregationProcessor(AggWindow), TrendAnalyzer(TrendWindow)}
    \cup {AnomalyDetector(MainThreshold)}

NoResult == [status |-> "none", value |-> NULL, code |-> ""]
Returned(v) == [status |-> "returned", value |-> v, code |-> ""]
Threw(code) == [status |-> "threw", value |-> NULL, code |-> code]
InFlight == [status |-> "pending", value |-> NULL, code |-> ""]

Settled(ok, value) == [ok |-> ok, value |-> value]

\* ---------------------------------------------------------------- pipeline
\* DataStreamPipeline's constructor
Init ==
    /\ stages = <<>>
    /\ processors = <<>>
    /\ isRunning = FALSE
    /\ pc = "idle"
    /\ current = NULL
    /\ idx = 0
    /\ pending = Settled(TRUE, NULL)
    /\ log = <<>>
    /\ result = NoResult
    /\ clock = 0
    /\ lifecycle = "none"

\* addProcessor forgetting to listen to the processor's `trend` events
PipelineListenersNoTrend ==
    <<[kind |-> "error", owner |-> "pipeline"], [kind |-> "anomaly", owner |-> "pipeline"],
      [kind |-> "aggregation", owner |-> "pipeline"]>>

\* addProcessor forgetting to listen to the processor's `error` events
PipelineListenersNoError ==
    <<[kind |-> "anomaly", owner |-> "pipeline"],
      [kind |-> "trend", owner |-> "pipeline"], [kind |-> "aggregation", owner |-> "pipeline"]>>

\* the listeners addProcessor registers on the processor, in order
PipelineListeners ==
    <<[kind |-> "error", owner |-> "pipeline"], [kind |-> "anomaly", owner |-> "pipeline"],
      [kind |-> "trend", owner |-> "pipeline"], [kind |-> "aggregation", owner |-> "pipeline"]>>

\* pipeline.addProcessor(new ...(...)): the processor is constructed for the call
AddProcessor(config) ==
    /\ Len(stages) < MaxStages
    /\ stages' = Append(stages, [config EXCEPT !.listeners = @ \o PipelineListeners])
    /\ processors' = Append(processors, Len(stages) + 1)
    /\ UNCHANGED <<isRunning, pc, current, idx, pending, log, result, clock, lifecycle>>

\* DataStreamPipeline.start
Start ==
    /\ isRunning' = TRUE
    /\ lifecycle' = "start"
    /\ UNCHANGED <<stages, processors, pc, current, idx, pending, log, result, clock>>

\* DataStreamPipeline.stop
Stop ==
    /\ isRunning' = FALSE
    /\ lifecycle' = "stop"
    /\ UNCHANGED <<stages, processors, pc, current, idx, pending, log, result, clock>>

\* the loop is left without its `if (current === null) break`
LoopExitsNoBreak(cur, i) == i > Len(processors)

\* push's for-of loop at position i with current = cur is left: processors is
\* exhausted, or current is null and the loop breaks
LoopExits(cur, i) == i > Len(processors) \/ cur.type = "null"

\* push returning at once, without a `processed` event, when current is null
FinishEarlyReturn(cur, i, lg) ==
    /\ log' = IF cur.type = "null" THEN lg
              ELSE Append(lg, [src |-> Pipeline, kind |-> "processed", data |-> cur])
    /\ result' = Returned(cur)
    /\ pc' = "idle"
    /\ current' = cur
    /\ idx' = i
    /\ pending' = Settled(TRUE, NULL)
    /\ UNCHANGED stages

\* push after its loop: publish `processed` and return current
Finish(cur, i, lg) ==
    /\ log' = Append(lg, [src |-> Pipeline, kind |-> "processed", data |-> cur])
    /\ result' = Returned(cur)
    /\ pc' = "idle"
    /\ current' = cur
    /\ idx' = i
    /\ pending' = Settled(TRUE, NULL)
    /\ UNCHANGED stages

\* `current = await processor.process(current)` up to the suspension: process
\* runs until it returns, or until it awaits its transformer's promise
Invoke(cur, i, lg) ==
    LET s == processors[i]
        st == stages[s]
        t == Transformer(st.transformer, cur)
    IN  /\ current' = cur
        /\ idx' = i
        /\ result' = InFlight
        /\ IF st.kind = "Transform" /\ ~t.thrown
           THEN /\ stages' = [stages EXCEPT ![s] = TransformCall(st)]
                /\ pending' = Settled(t.ok, t.value)
                /\ pc' = "awaitTransformer"
                /\ log' = lg
           ELSE LET o == Process(s, st, cur, clock')
                IN  /\ stages' = [stages EXCEPT ![s] = o.st]
                    /\ pending' = Settled(~o.threw, o.ret)
                    /\ pc' = "awaitProcess"
                    /\ log' = lg \o o.log

\* push from the head of its for-of loop, current = cur, at position i, lg the
\* events so far
Loop(cur, i, lg) ==
    IF LoopExits(cur, i) THEN Finish(cur, i, lg) ELSE Invoke(cur, i, lg)

\* push without its check of isRunning
PushUngated(dp) ==
    /\ pc = "idle"
    /\ clock' = clock + 1
    /\ UNCHANGED <<processors, isRunning, lifecycle>>
    /\ Loop(dp, 1, <<>>)

\* DataStreamPipeline.push(dataPoint), up to its first suspension
Push(dp) ==
    /\ pc = "idle"
    /\ clock' = clock + 1
    /\ UNCHANGED <<processors, isRunning, lifecycle>>
    /\ IF ~isRunning
       THEN /\ result' = Threw("NOT_RUNNING")
            /\ log' = <<>>
            /\ UNCHANGED <<stages, pc, current, idx, pending>>
       ELSE Loop(dp, 1, <<>>)

\* TransformProcessor.process resumes after `await this.transformer(dataPoint)`
ResumeTransform ==
    /\ pc = "awaitTransformer"
    /\ LET s == processors[idx]
           o == TransformResume(s, stages[s], current, pending.ok, pending.value)
       IN  /\ stages' = [stages EXCEPT ![s] = o.st]
           /\ log' = log \o o.log
           /\ pending' = Settled(~o.threw, o.ret)
    /\ pc' = "awaitProcess"
    /\ UNCHANGED <<processors, isRunning, current, idx, result, clock, lifecycle>>

\* a resumption that looks at isRunning again
ResumePushGated ==
    /\ pc = "awaitProcess"
    /\ UNCHANGED <<processors, isRunning, clock, lifecycle>>
    /\ IF ~pending.ok \/ ~isRunning
       THEN /\ result' = Threw(IF isRunning THEN "ERR_UNHANDLED_ERROR" ELSE "NOT_RUNNING")
            /\ pc' = "idle"
            /\ UNCHANGED <<stages, current, idx, pending, log>>
       ELSE Loop(pending.value, idx + 1, log)

\* push resumes after `await processor.process(current)`
ResumePush ==
    /\ pc = "awaitProcess"
    /\ UNCHANGED <<processors, isRunning, clock, lifecycle>>
    /\ IF ~pending.ok
       THEN /\ result' = Threw("ERR_UNHANDLED_ERROR")
            /\ pc' = "idle"
            /\ UNCHANGED <<stages, current, idx, pending, log>>
       ELSE Loop(pending.value, idx + 1, log)

Next ==
    \/ \E config \in PipelineConfigs : AddProcessor(config)
    \/ Start
    \/ Stop
    \/ \E dp \in Inputs(clock + 1) : clock < MaxPushes /\ Push(dp)
    \/ ResumeTransform
    \/ ResumePush

Spec == Init /\ [][Next]_vars

\* ------------------------------------------------------ the pipeline of main
\* the stages of main's pipeline once its five addProcessor calls have returned
MainStages ==
    LET built == <<FilterProcessor("isValid"), TransformProcessor("normalize"),
                   AnomalyDetector(MainThreshold), TrendAnalyzer(15), AggregationProcessor(20)>>
    IN  [i \in 1..5 |-> [built[i] EXCEPT !.listeners = @ \o PipelineListeners]]

\* main when it enters its loop over the generator's stream: the pipeline is
\* built and started
InitMain ==
    /\ stages = MainStages
    /\ processors = <<1, 2, 3, 4, 5>>
    /\ isRunning = TRUE
    /\ pc = "idle"
    /\ current = NULL
    /\ idx = 0
    /\ pending = Settled(TRUE, NULL)
    /\ log = <<>>
    /\ result = NoResult
    /\ clock = 0
    /\ lifecycle = "start"

\* the values the generator is taken to produce
MainValues == {Num(10), Num(60)}

\* main's loop: one push at a time, each awaited to its end
NextMain ==
    \/ \E v \in MainValues : clock < MaxMainPushes /\ Push(DataPoint(v, clock + 1))
    \/ ResumeTransform
    \/ ResumePush

SpecMain == InitMain /\ [][NextMain]_vars

\* ------------------------------------------------------ a stage on its own
\* one stage, constructed and not added to any pipeline
InitStage ==
    /\ stages \in {<<config>> : config \in StageConfigs}
    /\ processors = <<>>
    /\ isRunning = FALSE
    /\ pc = "idle"
    /\ current = NULL
    /\ idx = 0
    /\ pending = Settled(TRUE, NULL)
    /\ log = <<>>
    /\ result = NoResult
    /\ clock = 0
    /\ lifecycle = "none"

\* stage.on('error', callback) by an outside observer
Subscribe ==
    /\ ~HasListener(stages[1], "error")
    /\ stages' = [stages EXCEPT ![1].listeners = Append(@, [kind |-> "error", owner |-> "observer"])]
    /\ UNCHANGED <<processors, isRunning, pc, current, idx, pending, log, result, clock, lifecycle>>

\* await stage.process(dp): no other call reaches the stage while a transformer
\* is awaited, so the call is taken as one step
Call(dp) ==
    /\ clock' = clock + 1
    /\ LET st == stages[1]
           o == Process(1, st, dp, clock')
       IN  /\ stages' = [stages EXCEPT ![1] = o.st]
           /\ log' = o.log
           /\ result' = IF o.threw THEN Threw("ERR_UNHANDLED_ERROR") ELSE Returned(o.ret)
    /\ current' = dp
    /\ UNCHANGED <<processors, isRunning, pc, idx, pending, lifecycle>>

NextStage ==
    \/ Subscribe
    \/ \E dp \in Inputs(clock + 1) : clock < MaxCalls /\ Call(dp)

SpecStage == InitStage /\ [][NextStage]_vars

\* ------------------------------------- a validity filter in front of a stage
\* the values of the observations pushed: a finite number, NaN, the
\* infinities, and a value that is not a number
ValidityValues == {Num(10), NaN, PosInf, NegInf, Undefined}

\* the stages placed after the validity filter
Downstream ==
    {TransformProcessor("normalize"), AggregationProcessor(AggWindow),
     AnomalyDetector(MainThreshold), TrendAnalyzer(TrendWindow)}

\* a started pipeline of main's validity filter and one more stage
InitValidity ==
    /\ stages \in {[i \in 1..2 |-> [(<<FilterProcessor("isValid"), config>>)[i]
                                       EXCEPT !.listeners = @ \o PipelineListeners]] :
                      config \in Downstream}
    /\ processors = <<1, 2>>
    /\ isRunning = TRUE
    /\ pc = "idle"
    /\ current = NULL
    /\ idx = 0
    /\ pending = Settled(TRUE, NULL)
    /\ log = <<>>
    /\ result = NoResult
    /\ clock = 0
    /\ lifecycle = "start"

\* one push at a time, each awaited to its end
NextValidity ==
    \/ \E v \in ValidityValues : clock < MaxPushes /\ Push(DataPoint(v, clock + 1))
    \/ ResumeTransform
    \/ ResumePush

SpecValidity == InitValidity /\ [][NextValidity]_vars

\* --------------------------------------- a windowed stage fed a long series
\* the thresholds of the detectors: main's, one just below the default, the
\* constructor's default, and a large one
Thresholds == {MainThreshold, Frac(29, 10), Num(DefaultThreshold), Num(7)}

\* the stages that keep a buffer of what they were fed
SeriesConfigs ==
    {AnomalyDetector(t) : t \in Thresholds}
    \cup {AggregationProcessor(AggWindow), TrendAnalyzer(TrendWindow)}

\* the usual value of the series, and the value that stands out
Base == Num(10)
Outlier == Num(100)

\* the values a stage has buffered
Buffer(st) ==
    IF st.kind = "Anomaly" THEN st.history
    ELSE IF st.kind = "Trend" THEN st.values
    ELSE ValuesOf(st.window)

\* the capacity of the stage's buffer
Capacity(st) == IF st.kind = "Anomaly" THEN st.historySize ELSE st.windowSize

InitSeries ==
    /\ stages \in {<<config>> : config \in SeriesConfigs}
    /\ processors = <<>>
    /\ isRunning = FALSE
    /\ pc = "idle"
    /\ current = NULL
    /\ idx = 0
    /\ pending = Settled(TRUE, NULL)
    /\ log = <<>>
    /\ result = NoResult
    /\ clock = 0
    /\ lifecycle = "none"

\* the series: an observation stands out only when no buffered one does
NextSeries ==
    \E v \in {Base, Outlier} :
        /\ clock < MaxSeries
        /\ v = Outlier => \A i \in 1..Len(Buffer(stages[1])) : Buffer(stages[1])[i] # Outlier
        /\ Call(DataPoint(v, clock + 1))

SpecSeries == InitSeries /\ [][NextSeries]_vars

\* ------------------------------------------------- a trend analyzer on its own
\* window sizes below, at and above the number of values an analysis needs
TrendWindows == {MinTrendValues - 2, MinTrendValues, TrendWindow}

\* two values of which four and one add up to zero, and two that are 6.3
\* percent apart
TrendValues == {Num(-4), Num(1), Num(300), Num(319)}

InitTrend ==
    /\ stages \in {<<TrendAnalyzer(w)>> : w \in TrendWindows}
    /\ processors = <<>>
    /\ isRunning = FALSE
    /\ pc = "idle"
    /\ current = NULL
    /\ idx = 0
    /\ pending = Settled(TRUE, NULL)
    /\ log = <<>>
    /\ result = NoResult
    /\ clock = 0
    /\ lifecycle = "none"

NextTrend ==
    \E v \in TrendValues : clock < MaxTrendCalls /\ Call(DataPoint(v, clock + 1))

SpecTrend == InitTrend /\ [][NextTrend]_vars

\* ------------------------------- an aggregation in front of a trend analyzer
\* the values of the specification's worked example, in the order fed
Example == <<2, 4, 4, 4, 5, 5, 7, 9>>

\* a started pipeline of an aggregation, whose window is short or as long as
\* the example, and a trend analyzer
InitRising ==
    /\ stages \in {[i \in 1..2 |-> [(<<AggregationProcessor(w), TrendAnalyzer(TrendWindow)>>)[i]
                                       EXCEPT !.listeners = @ \o PipelineListeners]] :
                      w \in {AggWindow, Len(Example)}}
    /\ processors = <<1, 2>>
    /\ isRunning = TRUE
    /\ pc = "idle"
    /\ current = NULL
    /\ idx = 0
    /\ pending = Settled(TRUE, NULL)
    /\ log = <<>>
    /\ result = NoResult
    /\ clock = 0
    /\ lifecycle = "start"

\* one push at a time, each awaited to its end, of a value of the example that
\* is not below the values pushed before
NextRising ==
    \/ \E k \in 1..Len(Example) :
          /\ clock < Len(Example)
          /\ \A i \in 1..Len(stages[1].window) :
                 ~Less(Num(Example[k]), stages[1].window[i].value)
          /\ Push(DataPoint(Num(Example[k]), clock + 1))
    \/ ResumePush

SpecRising == InitRising /\ [][NextRising]_vars

\* ------------------------------------------- a pipeline built before its use
\* every addProcessor call has returned before the first push
InitBuilt ==
    /\ stages \in UNION {{[i \in 1..n |-> [built[i] EXCEPT !.listeners = @ \o PipelineListeners]] :
                             built \in [1..n -> PipelineConfigs]} : n \in 0..MaxStages}
    /\ processors = [i \in 1..Len(stages) |-> i]
    /\ isRunning = FALSE
    /\ pc = "idle"
    /\ current = NULL
    /\ idx = 0
    /\ pending = Settled(TRUE, NULL)
    /\ log = <<>>
    /\ result = NoResult
    /\ clock = 0
    /\ lifecycle = "none"

\* start, stop and serialized pushes
NextBuilt ==
    \/ Start
    \/ Stop
    \/ \E dp \in Inputs(clock + 1) : clock < MaxPushes /\ Push(dp)
    \/ ResumeTransform
    \/ ResumePush

SpecBuilt == InitBuilt /\ [][NextBuilt]_vars

\* ------------------------------------------------------------------ claims
\* a step in which push is called
PushCalled == pc = "idle" /\ clock' = clock + 1

\* a step in which the push in flight resumes after a stage's process settled
PushResumed == pc = "awaitProcess" /\ (pc' # pc \/ idx' # idx)

\* the stages that exist before the step are left as they are
StagesUnchanged == \A s \in 1..Len(stages) : stages'[s] = stages[s]

\* the events with which a step extends the log (a push call starts a new log)
Published == IF pc = "idle" THEN log' ELSE SubSeq(log', Len(log) + 1, Len(log'))

\* C1: while the pipeline is not running (never started, or stop was the last
\* of start and stop) a push fails with NOT_RUNNING, invokes no stage and
\* publishes nothing; while start was the last of the two, a push is accepted
\* and no push ever fails in another way.
C1_StateGate ==
    [][/\ (lifecycle = "start") = isRunning
       /\ PushCalled /\ lifecycle # "start"
            => /\ result' = Threw("NOT_RUNNING")
               /\ StagesUnchanged
               /\ log' = <<>>
               /\ pc' = "idle"
       /\ PushCalled /\ lifecycle = "start" => result'.status \in {"pending", "returned"}
       /\ result'.status = "threw" /\ result' # result => PushCalled /\ lifecycle # "start"
      ]_vars

\* C1 witness: started, an accepted push, stopped, and the next push failed
C1_Witness ==
    /\ lifecycle = "stop"
    /\ result = Threw("NOT_RUNNING")
    /\ Len(processors) > 0
    /\ stages[processors[1]].processedCount > 0

\* the push in flight holds the null a stage returned for its item
NullReturned == pc = "awaitProcess" /\ pending.ok /\ pending.value.type = "null"

\* C2: once a stage has returned null for the item, no stage is invoked any
\* more for it: every stage's counters and buffers stay as they are and the
\* push ends with null; a filter's rejection is such a null.
C2_ShortCircuit ==
    [][/\ NullReturned => StagesUnchanged
       /\ NullReturned /\ PushResumed => pc' = "idle" /\ result' = Returned(NULL)
       /\ \A s \in 1..Len(stages) :
            stages'[s].filteredCount # stages[s].filteredCount
                => /\ pc' = "awaitProcess"
                   /\ pending' = Settled(TRUE, NULL)
                   /\ \A t \in 1..Len(stages) : t # s => stages'[t] = stages[t]
      ]_vars

\* C2 witness: of two pushes the filter passed the first on and rejected the second
C2_Witness ==
    /\ Len(processors) = 2
    /\ stages[processors[1]].kind = "Filter"
    /\ stages[processors[1]].processedCount = 2
    /\ stages[processors[1]].filteredCount = 1
    /\ stages[processors[2]].processedCount = 1
    /\ pc = "idle"
    /\ result = Returned(NULL)

AlwaysFaulting == {"throwing", "rejecting"}

\* the transform stage s is suspended on its transformer's promise
Suspended(s) == pc = "awaitTransformer" /\ processors[idx] = s

\* C3: in a running pipeline a transform stage whose function always faults
\* (throws in the call, or rejects) counts exactly one error per push that
\* reaches it and hands null to push, which returns it; nothing escapes push,
\* and the fault leaves the pipeline running.
C3_ErrorIsolation ==
    /\ [](\A s \in 1..Len(stages) :
              stages[s].transformer \in AlwaysFaulting
                  => stages[s].errorCount
                         = stages[s].processedCount - (IF Suspended(s) THEN 1 ELSE 0))
    /\ [][/\ \A s \in 1..Len(stages) :
                stages[s].kind = "Transform" /\ stages'[s].errorCount # stages[s].errorCount
                    => /\ stages'[s].errorCount = stages[s].errorCount + 1
                       /\ pc' = "awaitProcess"
                       /\ processors[idx'] = s
                       /\ pending' = Settled(TRUE, NULL)
                       /\ isRunning' = isRunning
          /\ NullReturned /\ PushResumed => result' = Returned(NULL) /\ isRunning' = isRunning
          /\ result'.status = "threw" => result'.code = "NOT_RUNNING"
         ]_vars

\* C3 witness: two pushes went through a stage whose transformer rejects
C3_Witness ==
    /\ Len(processors) > 0
    /\ stages[processors[1]].transformer = "rejecting"
    /\ stages[processors[1]].errorCount = 2
    /\ stages[processors[1]].processedCount = 2
    /\ pc = "idle"
    /\ result = Returned(NULL)

\* the indices of the log's events of the given kind published by src
EventsOf(lg, src, kind) == {i \in 1..Len(lg) : lg[i].src = src /\ lg[i].kind = kind}

\* C4: process never throws to its caller, also on a stage used on its own
\* with nothing subscribed to its `error` event: a fault publishes an `error`
\* event and makes process return null.
C4_ProcessNeverThrows ==
    /\ result.status # "threw"
    /\ EventsOf(log, 1, "error") # {} => result = Returned(NULL)

\* C5: process called with null returns null at once: it counts no error,
\* leaves the window and the history alone and publishes no event.
C5_NullInputSafe ==
    [][clock' = clock + 1 /\ current'.type = "null"
            => /\ result' = Returned(NULL)
               /\ log' = <<>>
               /\ stages'[1].errorCount = stages[1].errorCount
               /\ stages'[1].window = stages[1].window
               /\ stages'[1].history = stages[1].history
               /\ stages'[1].values = stages[1].values
      ]_vars

SideKinds == {"anomaly", "trend", "aggregation"}

\* C7: each `anomaly`, `trend` and `aggregation` event of a stage of the
\* pipeline is followed at once, before anything else is published, by the
\* pipeline's one re-publication of it, same kind and same payload; and the
\* pipeline publishes no such event but these re-publications.
C7_SideEventsBubbleOnce ==
    /\ \A i \in 1..Len(log) :
           log[i].src # Pipeline /\ log[i].kind \in SideKinds
               => /\ i < Len(log)
                  /\ log[i + 1] = [src |-> Pipeline, kind |-> log[i].kind, data |-> log[i].data]
    /\ \A j \in 1..Len(log) :
           log[j].src = Pipeline /\ log[j].kind \in SideKinds
               => /\ j > 1
                  /\ log[j - 1].src # Pipeline
                  /\ log[j - 1].kind = log[j].kind
                  /\ log[j - 1].data = log[j].data

\* C7 witness: one push made the stages publish an event of each of the kinds
C7_Witness ==
    /\ pc = "idle"
    /\ \A kind \in SideKinds : \E i \in 1..Len(log) : log[i].src # Pipeline /\ log[i].kind = kind

\* C8: a push in flight goes on whatever isRunning has become: resumed with a
\* non-null item and a stage left, it invokes that stage; otherwise it
\* publishes `processed` and returns its item.  It never fails.
C8_StopDoesNotInterrupt ==
    [][/\ PushResumed
            => IF pending.value.type # "null" /\ idx < Len(processors)
               THEN /\ pc' \in {"awaitTransformer", "awaitProcess"}
                    /\ idx' = idx + 1
                    /\ current' = pending.value
                    /\ stages'[processors[idx']].processedCount
                           = stages[processors[idx']].processedCount + 1
               ELSE /\ pc' = "idle"
                    /\ result' = Returned(pending.value)
                    /\ log' = Append(log, [src |-> Pipeline, kind |-> "processed",
                                           data |-> pending.value])
       /\ pc # "idle" /\ lifecycle' # lifecycle
            => UNCHANGED <<stages, processors, pc, current, idx, pending, log, result>>
      ]_vars

\* C8 witness: the pipeline was stopped while a push is suspended with a stage left
C8_Witness ==
    /\ pc # "idle"
    /\ ~isRunning
    /\ lifecycle = "stop"
    /\ idx < Len(processors)
    /\ pending.value.type # "null"

\* the stages' events come in the order of the stages
Ordered(lg) ==
    \A i, j \in 1..Len(lg) :
        i < j /\ lg[i].src # Pipeline /\ lg[j].src # Pipeline => lg[i].src <= lg[j].src

\* C9: within a push the stages run in registration order, one after the other
\* has completed, and then the pipeline publishes exactly one `processed`
\* event, carrying the value push returns.
C9_OrderAndProcessed ==
    /\ \A k \in 1..Len(processors) : processors[k] = k
    /\ Ordered(log)
    /\ pc # "idle"
           => /\ idx \in 1..Len(processors)
              /\ EventsOf(log, Pipeline, "processed") = {}
              /\ \A i \in 1..Len(log) : log[i].src <= idx
              /\ pc = "awaitTransformer" => \A i \in 1..Len(log) : log[i].src < idx
    /\ pc = "idle" /\ result.status = "returned"
           => /\ EventsOf(log, Pipeline, "processed") = {Len(log)}
              /\ log[Len(log)].data = result.value
    /\ pc = "idle" /\ result.status # "returned" => log = <<>>

\* C9 witness: a push through two stages ended with a value that is not null
C9_Witness ==
    /\ pc = "idle"
    /\ result.status = "returned"
    /\ result.value.type # "null"
    /\ \A s \in 1..2 : \E i \in 1..Len(log) : log[i].src = s

Taps == {"Anomaly", "Trend"}

\* C10: an anomaly detector or trend analyzer given an observation with a
\* numeric value publishes one `data` event carrying that observation and
\* returns the observation as it got it, whatever else it reports.
C10_TapsPassThrough ==
    [][\A s \in 1..Len(stages) :
           /\ stages[s].kind \in Taps
           /\ stages'[s].processedCount = stages[s].processedCount + 1
           /\ current'.type = "DataPoint"
           /\ IsNumber(current'.value)
           => /\ pending' = Settled(TRUE, current')
              /\ stages'[s].errorCount = stages[s].errorCount
              /\ \E i \in 1..Len(Published) :
                     /\ EventsOf(Published, s, "data") = {i}
                     /\ Published[i].data = current'
      ]_vars

\* C10 witness: the detector flagged the observation and the analyzer reported
\* a trend for it, and both passed it on
C10_Witness ==
    /\ pc = "idle"
    /\ \E s \in 1..Len(stages) :
           /\ stages[s].kind = "Anomaly"
           /\ EventsOf(log, s, "anomaly") # {}
           /\ EventsOf(log, s, "data") # {}
    /\ \E s \in 1..Len(stages) :
           /\ stages[s].kind = "Trend"
           /\ EventsOf(log, s, "trend") # {}
           /\ EventsOf(log, s, "data") # {}

\* C11: an observation is valid iff its value is a finite number: the validity
\* filter hands an observation on exactly when its value is finite, so the
\* stage after the filter only ever processes observations of finite value.
C11_ValidIffFinite ==
    /\ pc = "awaitProcess" /\ idx = 1
           => (pending.value = current <=> IsFin(ValueOf(current)))
    /\ pc # "idle" /\ idx = 2 => IsFin(ValueOf(current))

\* the step is a call of process on the detector s
DetectorCalled(s) ==
    stages[s].kind = "Anomaly" /\ stages'[s].processedCount = stages[s].processedCount + 1

\* the step counts the observation as an anomaly
Flagged(s) == stages'[s].anomalyCount # stages[s].anomalyCount

\* C12: a detector whose previous ten observations all had value 10 does not
\* flag a following observation of value 100, whatever its threshold: the
\* anomaly count stays and no `anomaly` event is published.
C12_ConstantHistoryNeverFlags ==
    [][\A s \in 1..Len(stages) :
          DetectorCalled(s) /\ stages[s].history = [i \in 1..10 |-> Num(10)]
              /\ ValueOf(current') = Num(100)
              => ~Flagged(s) /\ EventsOf(Published, s, "anomaly") = {}
      ]_vars

\* the mean of the squares of h less the square of its mean: the population
\* variance of h
SpreadOf(h) ==
    LET n == Num(Len(h))
        squares == [i \in 1..Len(h) |-> Square(h[i])]
    IN  Sub(Div(SumRange(squares, 1, Len(h)), n), Square(Div(SumRange(h, 1, Len(h)), n)))

\* h holds at least 10 values, its population stdDev is not zero and
\* |v - mean| / stdDev > t, for a threshold t that is not negative
Anomalous(h, v, t) ==
    /\ Len(h) >= 10
    /\ SpreadOf(h) # Num(0)
    /\ Less(Square(t),
            Div(Square(Sub(v, Div(SumRange(h, 1, Len(h)), Num(Len(h))))), SpreadOf(h)))

\* C13: the detector flags an observation iff, its value appended, the history
\* holds at least 10 values, has a non-zero population stdDev and puts the
\* value more than threshold stdDevs from the mean; a flagged observation
\* adds exactly one to anomalyCount and publishes exactly one `anomaly` event
\* about it, an unflagged one changes neither; none of the first 9 is flagged.
C13_FlagsIffZScoreAbove ==
    [][\A s \in 1..Len(stages) : DetectorCalled(s) =>
          LET events == EventsOf(Published, s, "anomaly")
          IN  /\ IF Anomalous(stages'[s].history, ValueOf(current'), stages[s].threshold)
                 THEN /\ stages'[s].anomalyCount = stages[s].anomalyCount + 1
                      /\ Cardinality(events) = 1
                      /\ \A i \in events : Published[i].data.dataPoint = current'
                 ELSE /\ ~Flagged(s)
                      /\ events = {}
              /\ stages'[s].processedCount <= 9 => stages'[s].anomalyCount = 0
      ]_vars

\* C13 witness: the detector has flagged one observation, the last one, and
\* passed over the ten before it
C13_Witness ==
    /\ stages[1].kind = "Anomaly"
    /\ stages[1].processedCount = 11
    /\ stages[1].anomalyCount = 1
    /\ EventsOf(log, 1, "anomaly") # {}

\* the last w elements of the sequence q, oldest first (all of q when it is shorter)
LastOf(q, w) ==
    LET k == IF Len(q) < w THEN Len(q) ELSE w
    IN  [i \in 1..k |-> q[Len(q) - k + i]]

\* C14: the buffer of a windowed stage (window, values, history) of capacity
\* w >= 1 never holds more than w elements; an insertion leaves in it the last w
\* of its earlier elements followed by the inserted one, so after n >= w
\* insertions it holds the last w inserted values, oldest first: a window
\* fed the observations 1..n holds the observations n-w+1..n.
C14_WindowEviction ==
    /\ [](\A s \in 1..Len(stages) :
              /\ Capacity(stages[s]) >= 1 => Len(Buffer(stages[s])) <= Capacity(stages[s])
              /\ stages[s].kind = "Aggregation" /\ clock >= stages[s].windowSize
                     => stages[s].window
                            = [i \in 1..stages[s].windowSize |->
                                   DataPoint(stages[s].window[i].value,
                                             clock - stages[s].windowSize + i)])
    /\ [][\A s \in 1..Len(stages) :
              stages'[s].processedCount = stages[s].processedCount + 1
                  /\ stages'[s].errorCount = stages[s].errorCount
                  /\ Capacity(stages[s]) >= 1
                  => Buffer(stages'[s])
                         = LastOf(Buffer(stages[s]) \o <<ValueOf(current')>>, Capacity(stages[s]))
         ]_vars

\* C14 witness: the detector's history is full and has lost its oldest value
C14_Witness ==
    /\ stages[1].kind = "Anomaly"
    /\ stages[1].processedCount > stages[1].historySize
    /\ Len(stages[1].history) = DefaultHistorySize
    /\ stages[1].history[DefaultHistorySize] = ValueOf(current)

LessEq(a, b) == Less(a, b) \/ (IsFin(a) /\ a = b)

\* the direction of a trend by its unrounded percentage
DirectionOf(diff, sma) ==
    IF LessEq(AbsNum(Mul(Div(diff, sma), Num(100))), Num(5)) THEN "stable"
    ELSE IF Less(Num(0), diff) THEN "upward" ELSE "downward"

\* C15: a call of the analyzer's process publishes a `trend` event exactly
\* when the buffer holds at least 5 values after the append; the event's sma
\* is the mean of the buffer, diff = latest - sma, and the direction is stable
\* iff |diff / sma * 100| <= 5, else upward for diff > 0 and downward if not.
C15_TrendClassification ==
    \A s \in 1..Len(stages) : stages[s].kind = "Trend" /\ result.status = "returned" =>
        /\ EventsOf(log, s, "trend") # {} <=> Len(stages[s].values) >= 5
        /\ \A i \in EventsOf(log, s, "trend") :
              LET values == stages[s].values
                  trend == log[i].data
              IN  /\ trend.sma = Div(SumRange(values, 1, Len(values)), Num(Len(values)))
                  /\ trend.latest = values[Len(values)]
                  /\ trend.diff = Sub(trend.latest, trend.sma)
                  /\ trend.direction = DirectionOf(trend.diff, trend.sma)

\* C16: when the moving average is exactly zero the `trend` event carries a
\* finite diffPercent and the direction stable, whatever the latest value.
C16_ZeroAverageFallback ==
    \A i \in 1..Len(log) :
        log[i].kind = "trend" /\ log[i].data.sma = Num(0)
            => IsFin(log[i].data.diffPercent) /\ log[i].data.direction = "stable"

\* C20: an analyzer of windowSize < 5 never publishes a `trend` event; one of
\* windowSize >= 5 publishes none for the first 4 observations it processes
\* without a fault and exactly one for each from the 5th on.
C20_TrendNeedsFiveValues ==
    [][\A s \in 1..Len(stages) :
          stages[s].kind = "Trend"
              /\ stages'[s].processedCount = stages[s].processedCount + 1
              /\ stages'[s].errorCount = stages[s].errorCount
              => Cardinality(EventsOf(Published, s, "trend"))
                     = IF stages[s].windowSize >= 5
                          /\ stages'[s].processedCount - stages'[s].errorCount >= 5
                       THEN 1 ELSE 0
      ]_vars

\* C20 witness: an analyzer of windowSize 3 has processed 6 observations, the
\* last without a `trend` event
C20_Witness ==
    /\ stages[1].kind = "Trend"
    /\ stages[1].windowSize < 5
    /\ stages[1].processedCount = 6
    /\ Len(stages[1].values) = stages[1].windowSize
    /\ EventsOf(log, 1, "trend") = {}
    /\ EventsOf(log, 1, "data") # {}

RECURSIVE Total(_)
\* the numbers of vs added up from the left, starting from 0
Total(vs) ==
    IF vs = <<>> THEN Num(0) ELSE Add(Total(SubSeq(vs, 1, Len(vs) - 1)), vs[Len(vs)])

\* m is the least (sign = -1) or the greatest (sign = 1) of the numbers vs,
\* or NaN when one of them is not a number or NaN
Extreme(m, vs, sign) ==
    IF \E i \in 1..Len(vs) : vs[i].k \in {"nan", "undef"} THEN IsNaN(m)
    ELSE /\ \E i \in 1..Len(vs) : vs[i] = m
         /\ \A i \in 1..Len(vs) : IF sign < 0 THEN ~Less(vs[i], m) ELSE ~Less(m, vs[i])

\* sd is the non-negative root of the number v
RootOf(sd, v) ==
    IF IsFin(v)
    THEN \/ IsFin(sd) /\ sd.n >= 0 /\ Square(sd) = v
         \/ sd.k = "sqrt" /\ Frac(sd.n, sd.d) = v
    ELSE sd = v

\* the snapshot st describes the observations of window
SnapshotOf(st, window) ==
    LET vs == [i \in 1..Len(window) |-> ValueOf(window[i])]
    IN  /\ st.type = "stats"
        /\ st.count = Len(window)
        /\ st.sum = Total(vs)
        /\ st.mean = Div(st.sum, Num(st.count))
        /\ Extreme(st.min, vs, -1)
        /\ Extreme(st.max, vs, 1)
        /\ RootOf(st.stdDev, SpreadOf(vs))

\* C17: a call of the aggregation's process that does not fault appends the
\* observation to the window, evicts the oldest beyond windowSize, and returns
\* and publishes once, as `aggregation`, a snapshot of exactly the window's
\* observations: count = window length = min(insertions, windowSize), sum,
\* mean = sum / count, min, max and the population stdDev; push hands the
\* snapshot, not the observation, to the next stage.
C17_AggregationSnapshot ==
    [][/\ \A s \in 1..Len(stages) :
             stages[s].kind = "Aggregation"
                 /\ stages'[s].processedCount = stages[s].processedCount + 1
                 /\ stages'[s].errorCount = stages[s].errorCount
                 => LET window == stages'[s].window
                        events == EventsOf(Published, s, "aggregation")
                    IN  /\ window = LastOf(Append(stages[s].window, current'), stages[s].windowSize)
                        /\ stages[s].errorCount = 0 =>
                               Len(window) = IF stages'[s].processedCount < stages[s].windowSize
                                             THEN stages'[s].processedCount
                                             ELSE stages[s].windowSize
                        /\ pending'.ok /\ SnapshotOf(pending'.value, window)
                        /\ Cardinality(events) = 1
                        /\ \A i \in events : Published[i].data = pending'.value
       /\ pc = "awaitProcess" /\ stages[processors[idx]].kind = "Aggregation" /\ pending.ok
             /\ PushResumed
             => /\ current' = pending.value
                /\ idx' = idx + 1
                /\ idx < Len(processors) =>
                       stages'[processors[idx']].processedCount
                           = stages[processors[idx']].processedCount + 1
      ]_vars

\* C17 witness: the window holds the example's values 2,4,4,4,5,5,7,9, and the
\* snapshot with mean 5 and stdDev 2 went through the trend analyzer
C17_Witness ==
    /\ [i \in 1..Len(stages[1].window) |-> stages[1].window[i].value]
           = [i \in 1..Len(Example) |-> Num(Example[i])]
    /\ pc = "idle"
    /\ result.status = "returned"
    /\ result.value.type = "stats"
    /\ result.value.count = 8
    /\ result.value.mean = Num(5)
    /\ result.value.stdDev = Num(2)
    /\ stages[2].processedCount = 8

\* C18: in a pipeline built before its first push and used through push only,
\* between pushes every stage but the first has processed what the stage
\* before it processed and neither filtered out nor faulted on; at all times the
\* processed counts do not increase along the chain and a stage's errors and
\* filtered items together do not exceed what it processed.
C18_CounterChain ==
    /\ \A k \in 1..Len(processors) - 1 :
          LET a == stages[processors[k]]
              b == stages[processors[k + 1]]
          IN  /\ b.processedCount <= a.processedCount
              /\ pc = "idle"
                    => b.processedCount = a.processedCount - a.filteredCount - a.errorCount
    /\ \A k \in 1..Len(processors) :
          /\ stages[processors[k]].errorCount + stages[processors[k]].filteredCount
                 <= stages[processors[k]].processedCount
          /\ stages[processors[k]].kind # "Filter" => stages[processors[k]].filteredCount = 0

\* C18 witness: of two pushes the filter dropped one and the transformer
\* behind it faulted on the other
C18_Witness ==
    /\ Len(processors) = 2
    /\ pc = "idle"
    /\ lifecycle = "stop"
    /\ stages[processors[1]].kind = "Filter"
    /\ stages[processors[1]].processedCount = 2
    /\ stages[processors[1]].filteredCount = 1
    /\ stages[processors[2]].processedCount = 1
    /\ stages[processors[2]].errorCount = 1

====
